---- MODULE Spec2Model ----
(***************************************************************************)
(* Model of src/main.py: the Twitch VOD -> YouTube archiving script.       *)
(* Strings are sequences of character codes (ASCII), so that str.lower(),  *)
(* str.split(" |"), str(int) and int(str) are computed, not assumed.       *)
(* The ledger is the file processed_vods.csv: one row per saved recording. *)
(***************************************************************************)
EXTENDS Integers, Sequences, FiniteSets, TLC

\* ------------------------------------------------------------------ bounds
MaxVods == 2
MaxRuns == 2
MaxFaults == 1
MaxDuration == 7200
MaxRows == 3

\* ------------------------------------------------------- character strings
SP == 32
BAR == 124

\* "just chatting" and "cooking" (main.py:333)
JustChatting == <<106, 117, 115, 116, 32, 99, 104, 97, 116, 116, 105, 110, 103>>
Cooking == <<99, 111, 111, 107, 105, 110, 103>>
\* " | Part " and " | " of the f-strings (main.py:339, main.py:356)
PartSep == <<32, 124, 32, 80, 97, 114, 116, 32>>
BarSep == <<32, 124, 32>>

\* str.lower() on ASCII text (main.py:64, main.py:333)
LowerChar(c) == IF c >= 65 /\ c <= 90 THEN c + 32 ELSE c
Lower(s) == [k \in 1..Len(s) |-> LowerChar(s[k])]

\* Position of the first " |" in t, 0 when there is none.
FirstDelim(t) ==
    LET ps == {p \in 1..(Len(t) - 1) : t[p] = SP /\ t[p + 1] = BAR}
    IN IF ps = {} THEN 0 ELSE CHOOSE p \in ps : \A q \in ps : p <= q

\* vod_title.split(" |")[0]  (main.py:328)
SplitHead(t) ==
    IF FirstDelim(t) = 0 THEN t ELSE SubSeq(t, 1, FirstDelim(t) - 1)

\* vod_title.split(' |', 1)  (main.py:339, main.py:356): one or two pieces
SplitOnce(t) ==
    IF FirstDelim(t) = 0
    THEN <<t>>
    ELSE <<SubSeq(t, 1, FirstDelim(t) - 1), SubSeq(t, FirstDelim(t) + 2, Len(t))>>

\* str(part_number): csv.writer and the f-strings render the int in decimal
RECURSIVE IntToStr(_)
IntToStr(n) ==
    IF n < 10 THEN <<48 + n>> ELSE IntToStr(n \div 10) \o <<48 + (n % 10)>>

\* int(row[2])  (main.py:65)
RECURSIVE StrToInt(_)
StrToInt(s) ==
    IF Len(s) = 0 THEN 0
    ELSE 10 * StrToInt(SubSeq(s, 1, Len(s) - 1)) + (s[Len(s)] - 48)

\* max(a, b) (main.py:65, main.py:139)
Max(a, b) == IF a >= b THEN a ELSE b

\* ------------------------------------------------------------- the ledger
\* csv row written by save_processed_vod: [vod_id, game_name, part_number, timestamp]
Row(vod_id, game, part_number, ts) ==
    [vod_id |-> vod_id, game_name |-> game, part_number |-> IntToStr(part_number),
     timestamp |-> ts]

\* A file opened with "w" instead of "a": the row replaces the file's content.
save_processed_vod_truncating(file, vod_id, game, part_number, ts) ==
    <<Row(vod_id, game, part_number, ts)>>

\* The file rewritten on every save, each stored row stamped anew.
save_processed_vod_restamping(file, vod_id, game, part_number, ts) ==
    [k \in 1..Len(file) |-> [file[k] EXCEPT !.timestamp = ts]]
        \o <<Row(vod_id, game, part_number, ts)>>

\* open(PROCESSED_FILE, "a") ... writer.writerow(...)
save_processed_vod(file, vod_id, game, part_number, ts) ==
    Append(file, Row(vod_id, game, part_number, ts))

\* load_processed_vods: every row of the file, in file order
load_processed_vods(file) == file

\* The part number of the last matching row, not the greatest.
get_last_part_number_for_game_last_row(game, rows) ==
    LET m == {k \in 1..Len(rows) : Lower(rows[k].game_name) = Lower(game)}
    IN IF m = {} THEN 0
       ELSE StrToInt(rows[CHOOSE k \in m : \A q \in m : q <= k].part_number)

\* main.py:61-66: the running maximum over the rows, in file order
RECURSIVE get_last_part_number_for_game(_, _)
get_last_part_number_for_game(game, rows) ==
    IF rows = <<>> THEN 0
    ELSE LET rest == get_last_part_number_for_game(game, SubSeq(rows, 1, Len(rows) - 1))
             row == rows[Len(rows)]
         IN IF Lower(row.game_name) = Lower(game)
            THEN Max(rest, StrToInt(row.part_number))
            ELSE rest

\* The id compared with the wrong column of the row (row[1]).
IsProcessedWrongColumn(vod_id, rows) == \E k \in 1..Len(rows) : rows[k].game_name = vod_id

\* The ids compared ignoring letter case.
IsProcessedNoCase(vod_id, rows) ==
    \E k \in 1..Len(rows) : Lower(rows[k].vod_id) = Lower(vod_id)

\* any(vod_id == row[0] for row in processed_vods)  (main.py:318)
IsProcessed(vod_id, rows) == \E k \in 1..Len(rows) : rows[k].vod_id = vod_id

\* The category compared as written, without lower().
IsContinuousCaseSensitive(game) == game = JustChatting \/ game = Cooking

\* game_name.lower() == "just chatting" or game_name.lower() == "cooking"
IsContinuous(game) == Lower(game) = JustChatting \/ Lower(game) = Cooking

\* ------------------------------------------------------------- the inputs
\* Recordings the listing call can return: (id, title) of fetch_vod_details,
\* and the duration in seconds ffprobe reports for the complete download.
\*   "a"  "Cooking | a"  3600        "b"  "Just Chatting | b"  3600
\*   "A"  "G | a"        3600        "c"  "g | b"              1000
\*   "d"  "SH"           600
Pool ==
    { [id |-> <<97>>, title |-> <<67, 111, 111, 107, 105, 110, 103, 32, 124, 32, 97>>,
       duration |-> 3600],
      [id |-> <<98>>, title |-> <<74, 117, 115, 116, 32, 67, 104, 97, 116, 116, 105,
                                  110, 103, 32, 124, 32, 98>>,
       duration |-> 3600],
      [id |-> <<65>>, title |-> <<71, 32, 124, 32, 97>>, duration |-> 3600],
      [id |-> <<99>>, title |-> <<103, 32, 124, 32, 98>>, duration |-> 1000],
      [id |-> <<100>>, title |-> <<83, 72>>, duration |-> 600] }

\* The listings: up to MaxVods distinct recordings, newest first.
Listings ==
    UNION { {l \in [1..n -> Pool] : \A x, y \in 1..n : x # y => l[x] # l[y]}
            : n \in 1..MaxVods }

\* Ledgers left by an earlier run over recordings no longer listed: none, or
\* "z" of "g" and then "y" of "G", each recorded with part number 2.
InitLedgers ==
    { <<>>,
      <<Row(<<122>>, <<103>>, 2, 0), Row(<<121>>, <<71>>, 2, 0)>> }

\* All orders in which os.listdir may return the files of a directory.
Orders(S) ==
    {l \in [1..Cardinality(S) -> S] : \A x, y \in 1..Cardinality(S) : x # y => l[x] # l[y]}

\* -------------------------------------------------------------- the state
VARIABLES
    vods,            \* latest_vods: the listing (fixed over the runs)
    ledger,          \* processed_vods.csv
    vods_dir,        \* ./vods: the downloaded files
    segments_dir,    \* ./segments: the segment files
    uploads,         \* videos inserted on the hosting platform, in call order
    playlists,       \* titles of the channel's playlists
    playlist_items,  \* <<upload number, playlist title>>
    run,             \* number of the current invocation of the script
    pc,              \* position of main()
    skip_first_vod, processed_vods, index,
    game_name, last_part_number, segments, i,
    status,          \* per listed recording: Pending, Skipped, Done, Failed
    error,           \* per listed recording: the step whose exception was caught
    dl,              \* per listed recording: what download_vod did in this run
    prev_status,     \* status of the previous run
    ledger0,         \* the ledger file as it was when this run started
    top_error,       \* an exception reached the handler of __main__
    faults,          \* environment failures injected so far
    total_duration, num_segments, segment_duration,  \* locals of split_vod
    latest_vods,     \* main()'s listing: empty until fetch_vod_details returns
    call,            \* the source call in progress: is_user_live, fetch_vod_details
    responses,       \* status codes the call in progress has received, in order
    refreshes        \* results of the token refreshes the call in progress made

vars ==
    <<vods, ledger, vods_dir, segments_dir, uploads, playlists, playlist_items, run, pc,
      skip_first_vod, processed_vods, index, game_name, last_part_number, segments, i,
      status, error, dl, prev_status, ledger0, top_error, faults,
      total_duration, num_segments, segment_duration,
      latest_vods, call, responses, refreshes>>

world == <<vods, ledger, vods_dir, segments_dir, uploads, playlists, playlist_items>>
locals == <<skip_first_vod, processed_vods, game_name, last_part_number, segments, i>>
hist == <<prev_status, ledger0, top_error>>
plan == <<total_duration, num_segments, segment_duration>>
source == <<latest_vods, call, responses, refreshes>>

N == Len(vods)
cur == latest_vods[index + 1]
AllOf(v) == [k \in 1..N |-> v]
CanFail == faults < MaxFaults

Init ==
    /\ vods \in Listings
    /\ ledger \in InitLedgers
    /\ vods_dir = {}
    /\ segments_dir = {}
    /\ uploads = <<>>
    /\ playlists = {}
    /\ playlist_items = {}
    /\ run = 1
    /\ pc = "idle"
    /\ skip_first_vod = FALSE
    /\ processed_vods = <<>>
    /\ index = 0
    /\ game_name = <<>>
    /\ last_part_number = 0
    /\ segments = <<>>
    /\ i = 0
    /\ status = AllOf("Pending")
    /\ error = AllOf("")
    /\ dl = AllOf("none")
    /\ prev_status = AllOf("Pending")
    /\ ledger0 = ledger
    /\ top_error = FALSE
    /\ faults = 0
    /\ total_duration = 0
    /\ num_segments = 0
    /\ segment_duration = [num |-> 0, den |-> 1]
    /\ latest_vods = <<>>
    /\ call = "none"
    /\ responses = <<>>
    /\ refreshes = <<>>

\* ----------------------------------------------------------------- main()
\* The handler of __main__ (main.py:378-381) not there: the exception ends the
\* process with a traceback.
TopLevelExceptMissing ==
    /\ top_error' = top_error
    /\ pc' = "crashed"

\* main.py:378-381: an exception that leaves main() is printed and the process
\* ends normally.
TopLevelExcept ==
    /\ top_error' = TRUE
    /\ pc' = "done"

\* The return of the call into main(): is_user_live's answer becomes
\* skip_first_vod (main.py:227-228, 298-302), fetch_vod_details' becomes
\* latest_vods (main.py:106-121, 304).
SourceReturn(c) ==
    /\ UNCHANGED top_error
    /\ IF c = "is_user_live"
       THEN /\ \E live \in BOOLEAN : skip_first_vod' = live
            /\ pc' = "fetch"
            /\ UNCHANGED latest_vods
       ELSE /\ latest_vods' = vods
            /\ pc' = "load"
            /\ UNCHANGED skip_first_vod

\* response.raise_for_status() (main.py:105, main.py:226) on the answer r of
\* call c: any answer but 200 raises out of main(); else the call returns.
RaiseForStatus(c, r) ==
    IF r = 200
    THEN SourceReturn(c)
    ELSE TopLevelExcept /\ UNCHANGED <<skip_first_vod, latest_vods>>

\* requests.get of is_user_live (main.py:219), called at main.py:298, and of
\* fetch_vod_details (main.py:98), called at main.py:304, up to the next
\* request. The response is 200, or the environment fails the call: 401 (the
\* access token has expired) or a server error. What follows a 401 within the
\* call belongs to the same failure.
SourceGet ==
    /\ pc \in {"idle", "fetch"}
    /\ LET c == IF pc = "idle" THEN "is_user_live" ELSE "fetch_vod_details" IN
       /\ call' = c
       /\ \E r \in {200, 401, 500} :
           /\ r # 200 => CanFail
           /\ faults' = IF r = 200 THEN faults ELSE faults + 1
           /\ responses' = <<r>>
           /\ IF r = 401
              THEN /\ pc' = "refresh"
                   /\ UNCHANGED <<top_error, skip_first_vod, latest_vods>>
              ELSE RaiseForStatus(c, r)
    /\ refreshes' = <<>>
    /\ UNCHANGED <<world, run, processed_vods, game_name, last_part_number, segments, i,
                   index, status, error, dl, prev_status, ledger0, plan>>

\* refresh_access_token (main.py:68-90) called at main.py:101 and main.py:222:
\* the token is replaced ("ok"), or the answer is not 200 and only a message is
\* printed ("rejected"), or the request or the rewrite of .env raises ("raised").
RefreshAccessToken ==
    /\ pc = "refresh"
    /\ \E out \in {"ok", "rejected", "raised"} :
        /\ refreshes' = Append(refreshes, out)
        /\ IF out = "raised"
           THEN TopLevelExcept
           ELSE pc' = "retry" /\ UNCHANGED top_error
    /\ UNCHANGED <<world, run, locals, index, status, error, dl, prev_status, ledger0, plan,
                   latest_vods, call, responses, faults>>

\* A retry that asks for a new token whenever the answer is 401 again.
SourceRetryUntilAuthorized ==
    /\ pc = "retry"
    /\ \E r \in {200, 401, 500} :
        /\ responses' = Append(responses, r)
        /\ IF r = 401
           THEN /\ pc' = "refresh"
                /\ UNCHANGED <<top_error, skip_first_vod, latest_vods>>
           ELSE RaiseForStatus(call, r)
    /\ UNCHANGED <<world, run, processed_vods, game_name, last_part_number, segments, i,
                   index, status, error, dl, prev_status, ledger0, plan, call, refreshes,
                   faults>>

\* The second requests.get (main.py:103, main.py:224), with the token
\* refresh_access_token left, and what follows it: any of the three answers.
SourceRetry ==
    /\ pc = "retry"
    /\ \E r \in {200, 401, 500} :
        /\ responses' = Append(responses, r)
        /\ RaiseForStatus(call, r)
    /\ UNCHANGED <<world, run, processed_vods, game_name, last_part_number, segments, i,
                   index, status, error, dl, prev_status, ledger0, plan, call, refreshes,
                   faults>>

\* main.py:306-309: ledger snapshot and authentication. The records of the
\* source calls are dropped here.
MainStart ==
    /\ pc = "load"
    /\ processed_vods' = load_processed_vods(ledger)
    /\ index' = 0
    /\ pc' = "loop"
    /\ call' = "none"
    /\ responses' = <<>>
    /\ refreshes' = <<>>
    /\ UNCHANGED <<world, run, skip_first_vod, game_name, last_part_number, segments, i,
                   status, error, dl, hist, faults, plan, latest_vods>>

\* main.py:306-309 raising (unreadable ledger, authentication): the exception
\* leaves main().
MainStartError ==
    /\ pc = "load"
    /\ CanFail
    /\ faults' = faults + 1
    /\ TopLevelExcept
    /\ UNCHANGED <<world, run, locals, index, status, error, dl, prev_status, ledger0, plan,
                   source>>

\* skip_first_vod and index == 0  (main.py:313)
LiveSkip == skip_first_vod /\ index = 0

\* main.py:313-315
SkipFirstVod ==
    /\ pc = "loop" /\ index < N
    /\ UNCHANGED <<plan, source>>
    /\ LiveSkip
    /\ status' = [status EXCEPT ![index + 1] = "Skipped"]
    /\ index' = index + 1
    /\ UNCHANGED <<world, run, pc, locals, error, dl, hist, faults>>

\* main.py:318-320
SkipProcessed ==
    /\ pc = "loop" /\ index < N
    /\ UNCHANGED <<plan, source>>
    /\ ~LiveSkip
    /\ IsProcessed(cur.id, processed_vods)
    /\ status' = [status EXCEPT ![index + 1] = "Skipped"]
    /\ index' = index + 1
    /\ UNCHANGED <<world, run, pc, locals, error, dl, hist, faults>>

\* A handler placed around the loop instead of inside it: the first failure
\* ends the loop.
ExceptAbort(reason) ==
    /\ status' = [status EXCEPT ![index + 1] = "Failed"]
    /\ error' = [error EXCEPT ![index + 1] = reason]
    /\ index' = N
    /\ pc' = "loop"

\* main.py:370-372: the per-recording handler
Except(reason) ==
    /\ status' = [status EXCEPT ![index + 1] = "Failed"]
    /\ error' = [error EXCEPT ![index + 1] = reason]
    /\ index' = index + 1
    /\ pc' = "loop"

\* main.py:368 and the end of the loop body
Processed ==
    /\ status' = [status EXCEPT ![index + 1] = "Done"]
    /\ error' = error
    /\ index' = index + 1
    /\ pc' = "loop"

\* Seconds of video in the file streamlink wrote: all of the recording, or the
\* first half of it when streamlink stopped early.
Downloaded(out) == IF out = "complete" THEN cur.duration ELSE cur.duration \div 2

\* download_vod (main.py:123-128) called at main.py:324. subprocess.run has no
\* check=True: a non-zero exit of streamlink raises nothing, whether it left a
\* truncated file ("partial") or none ("missing"). Only failing to start the
\* tool raises ("raised").
DownloadVod ==
    /\ pc = "loop" /\ index < N
    /\ UNCHANGED <<plan, source>>
    /\ ~LiveSkip
    /\ ~IsProcessed(cur.id, processed_vods)
    /\ \E out \in {"complete", "partial", "missing", "raised"} :
        /\ out # "complete" => CanFail
        /\ faults' = IF out = "complete" THEN faults ELSE faults + 1
        /\ dl' = [dl EXCEPT ![index + 1] = out]
        /\ vods_dir' = IF out \in {"complete", "partial"}
                       THEN vods_dir \cup {[id |-> cur.id, duration |-> Downloaded(out)]}
                       ELSE vods_dir
        /\ IF out = "raised"
           THEN Except("download")
           ELSE /\ pc' = "classify"
                /\ UNCHANGED <<index, status, error>>
    /\ UNCHANGED <<vods, ledger, segments_dir, uploads, playlists, playlist_items, run,
                   locals, hist>>

\* main.py:326-333, 348
Classify ==
    /\ pc = "classify"
    /\ UNCHANGED <<plan, source>>
    /\ game_name' = SplitHead(cur.title)
    /\ last_part_number' = get_last_part_number_for_game(game_name', processed_vods)
    /\ pc' = IF IsContinuous(game_name') THEN "whole" ELSE "split"
    /\ UNCHANGED <<world, run, skip_first_vod, processed_vods, index, segments, i, status,
                   error, dl, hist, faults>>

\* os.path of the downloaded file exists in ./vods
HasFile(id) == \E f \in vods_dir : f.id = id

\* f"{head} | Part {part_number} | {vod_title.split(' |', 1)[1]}"  (main.py:339, 356)
ModifiedTitle(head, part_number, title) ==
    head \o PartSep \o IntToStr(part_number) \o BarSep \o SplitOnce(title)[2]

\* vod_title.split(' |', 1)[1] raises IndexError when the title has no " |"
FormatRaises(title) == Len(SplitOnce(title)) < 2

\* get_playlist_id_by_name (main.py:247-261): the playlist whose title matches
\* ignoring case, else a playlist created with this name.
PlaylistFor(name) ==
    IF \E p \in playlists : Lower(p) = Lower(name)
    THEN CHOOSE p \in playlists : Lower(p) = Lower(name)
    ELSE name

\* The three calls as one transaction: a video whose grouping raises is not
\* left on the platform.
UploadAndGroupAtomic(video, out) ==
    /\ uploads' = IF out = "ok" THEN Append(uploads, video) ELSE uploads
    /\ playlists' = IF out \in {"upload", "playlist"}
                    THEN playlists
                    ELSE playlists \cup {PlaylistFor(game_name)}
    /\ playlist_items' = IF out = "ok"
                         THEN playlist_items \cup
                                 {<<Len(uploads) + 1, PlaylistFor(game_name)>>}
                         ELSE playlist_items

\* main.py:344-346 and main.py:361-363: upload_to_youtube, then
\* get_playlist_id_by_name, then add_video_to_playlist. out names the call that
\* raises ("ok": none). upload_to_youtube's handler names HttpError, which is
\* not imported, so a failed upload raises into main()'s handler as well.
UploadAndGroup(video, out) ==
    /\ uploads' = IF out = "upload" THEN uploads ELSE Append(uploads, video)
    /\ playlists' = IF out \in {"upload", "playlist"}
                    THEN playlists
                    ELSE playlists \cup {PlaylistFor(game_name)}
    /\ playlist_items' = IF out = "ok"
                         THEN playlist_items \cup
                                 {<<Len(uploads) + 1, PlaylistFor(game_name)>>}
                         ELSE playlist_items

\* The video inserted for a file: the recording being processed, the part
\* number and title given, the file (-1: the whole download) and whose content
\* the file holds.
Video(part_number, title, file, from) ==
    [vod_id |-> cur.id, part |-> part_number, title |-> title, file |-> file,
     from |-> from, run |-> run]

\* main.py:334-346: the continuous branch up to the ledger write
UploadWhole ==
    /\ pc = "whole"
    /\ UNCHANGED <<plan, source>>
    /\ LET part_number == last_part_number + 1 IN
       IF FormatRaises(cur.title)
       THEN /\ Except("format")
            /\ UNCHANGED <<uploads, playlists, playlist_items, faults>>
       ELSE IF ~HasFile(cur.id)
       THEN /\ Except("upload")
            /\ UNCHANGED <<uploads, playlists, playlist_items, faults>>
       ELSE \E out \in {"ok", "upload", "playlist", "add"} :
            /\ out # "ok" => CanFail
            /\ faults' = IF out = "ok" THEN faults ELSE faults + 1
            /\ UploadAndGroup(Video(part_number,
                                    ModifiedTitle(game_name, part_number, cur.title),
                                    -1, cur.id), out)
            /\ IF out = "ok"
               THEN pc' = "save_whole" /\ UNCHANGED <<index, status, error>>
               ELSE Except(out)
    /\ UNCHANGED <<vods, ledger, vods_dir, segments_dir, run, locals, dl, hist>>

\* The row written although the step then raises.
SaveWholeEarly ==
    /\ pc = "save_whole"
    /\ UNCHANGED <<plan, source>>
    /\ ledger' = save_processed_vod(ledger, cur.id, game_name, last_part_number + 1, run)
    /\ \/ /\ Processed
          /\ UNCHANGED faults
       \/ /\ CanFail
          /\ faults' = faults + 1
          /\ Except("save")
    /\ UNCHANGED <<vods, vods_dir, segments_dir, uploads, playlists, playlist_items, run,
                   locals, dl, hist>>

\* main.py:347
SaveWhole ==
    /\ pc = "save_whole"
    /\ UNCHANGED <<plan, source>>
    /\ \/ /\ ledger' = save_processed_vod(ledger, cur.id, game_name,
                                          last_part_number + 1, run)
          /\ Processed
          /\ UNCHANGED faults
       \/ /\ CanFail
          /\ faults' = faults + 1
          /\ Except("save")
          /\ UNCHANGED ledger
    /\ UNCHANGED <<vods, vods_dir, segments_dir, uploads, playlists, playlist_items, run,
                   locals, dl, hist>>

\* target_segment_duration  (main.py:135)
TargetSegmentDuration == 1800

\* round(x / y) for integers x >= 0, y > 0: Python 3 rounds a half to even
Round(x, y) ==
    LET q == x \div y
        r == x % y
    IN IF 2 * r < y THEN q
       ELSE IF 2 * r > y THEN q + 1
       ELSE IF q % 2 = 0 THEN q ELSE q + 1

\* num_segments  (main.py:136)
NumSegments(total) == Round(total, TargetSegmentDuration)

\* The division made by num_segments itself.
SegmentDurationUnguarded(total, num) == [num |-> total, den |-> num]

\* segment_duration = total_duration / max(1, num_segments)  (main.py:139), kept
\* as the fraction num / den
SegmentDuration(total, num) == [num |-> total, den |-> Max(1, num)]

\* main.py:132-139 for a probed duration d
PlanSegments(d) ==
    /\ total_duration' = d
    /\ num_segments' = NumSegments(d)
    /\ segment_duration' = SegmentDuration(d, NumSegments(d))

\* get_video_duration (main.py:153-155) of the file downloaded for id
Duration(id) == (CHOOSE f \in vods_dir : f.id = id).duration

\* Files ffmpeg writes for -segment_time total_duration / max(1, num_segments)
\* (main.py:139-146) when it runs to the end.
FilesWritten(total) == Max(1, NumSegments(total))

\* What ffmpeg's segment muxer leaves in ./segments after writing n files
\* segment_000 .. segment_(n-1): files of those names are overwritten, the
\* others stay.
AfterSplit(n) ==
    {f \in segments_dir : f.name >= n} \cup {[name |-> k, from |-> cur.id] : k \in 0..(n - 1)}

\* for file in os.listdir(SEGMENTS_DIR): segments.append(...)  (main.py:147-149):
\* every segment file of the directory, in the order os.listdir returns them,
\* which is arbitrary.
ListSegments(dir) == Orders(dir)

\* split_vod (main.py:130-151) called at main.py:351. ffprobe prints nothing
\* for a missing file and float("") raises; ffmpeg's exit status is not
\* checked, so when it stops early ("ffmpeg") the files it wrote so far are
\* what is there.
SplitVod ==
    /\ pc = "split"
    /\ IF ~HasFile(cur.id)
       THEN /\ Except("probe")
            /\ UNCHANGED <<segments_dir, segments, i, faults, plan>>
       ELSE \/ /\ CanFail
               /\ faults' = faults + 1
               /\ Except("probe")
               /\ UNCHANGED <<segments_dir, segments, i, plan>>
            \/ \E n \in 0..FilesWritten(Duration(cur.id)) :
               /\ PlanSegments(Duration(cur.id))
               /\ n < FilesWritten(Duration(cur.id)) => CanFail
               /\ faults' = IF n < FilesWritten(Duration(cur.id)) THEN faults + 1 ELSE faults
               /\ segments_dir' = AfterSplit(n)
               /\ segments' \in ListSegments(segments_dir')
               /\ i' = 0
               /\ pc' = "segments"
               /\ UNCHANGED <<index, status, error>>
    /\ UNCHANGED <<vods, ledger, vods_dir, uploads, playlists, playlist_items, run,
                   skip_first_vod, processed_vods, game_name, last_part_number, dl, hist,
                   source>>

\* main.py:352-363: one iteration of the loop over the segments
UploadSegment ==
    /\ pc = "segments" /\ i < Len(segments)
    /\ UNCHANGED <<plan, source>>
    /\ LET part_number == last_part_number + i + 1
           segment == segments[i + 1] IN
       IF FormatRaises(cur.title)
       THEN /\ Except("format")
            /\ UNCHANGED <<uploads, playlists, playlist_items, faults, i>>
       ELSE \E out \in {"ok", "upload", "playlist", "add"} :
            /\ out # "ok" => CanFail
            /\ faults' = IF out = "ok" THEN faults ELSE faults + 1
            /\ UploadAndGroup(Video(part_number,
                                    ModifiedTitle(SplitOnce(cur.title)[1], part_number,
                                                  cur.title),
                                    segment.name, segment.from), out)
            /\ IF out = "ok"
               THEN i' = i + 1 /\ UNCHANGED <<pc, index, status, error>>
               ELSE Except(out) /\ UNCHANGED i
    /\ UNCHANGED <<vods, ledger, vods_dir, segments_dir, run, skip_first_vod,
                   processed_vods, game_name, last_part_number, segments, dl, hist>>

\* The row written inside the loop over the segments, once a piece is up.
SaveSegmentsEarly ==
    /\ pc = "segments" /\ (i >= 1 \/ i = Len(segments))
    /\ UNCHANGED <<plan, source>>
    /\ \/ /\ ledger' = save_processed_vod(ledger, cur.id, game_name,
                                          last_part_number + Len(segments), run)
          /\ Processed
          /\ UNCHANGED faults
       \/ /\ CanFail
          /\ faults' = faults + 1
          /\ Except("save")
          /\ UNCHANGED ledger
    /\ UNCHANGED <<vods, vods_dir, segments_dir, uploads, playlists, playlist_items, run,
                   locals, dl, hist>>

\* main.py:365-366
SaveSegments ==
    /\ pc = "segments" /\ i = Len(segments)
    /\ UNCHANGED <<plan, source>>
    /\ \/ /\ ledger' = save_processed_vod(ledger, cur.id, game_name,
                                          last_part_number + Len(segments), run)
          /\ Processed
          /\ UNCHANGED faults
       \/ /\ CanFail
          /\ faults' = faults + 1
          /\ Except("save")
          /\ UNCHANGED ledger
    /\ UNCHANGED <<vods, vods_dir, segments_dir, uploads, playlists, playlist_items, run,
                   locals, dl, hist>>

\* clear_folders (main.py:231-245) called at main.py:375
ClearFolders ==
    /\ pc = "loop" /\ index = N
    /\ UNCHANGED <<plan, source>>
    /\ vods_dir' = {}
    /\ segments_dir' = {}
    /\ pc' = "done"
    /\ UNCHANGED <<vods, ledger, uploads, playlists, playlist_items, run, locals, index,
                   status, error, dl, hist, faults>>

\* clear_folders raising (a file that cannot be removed): the exception leaves
\* main().
ClearFoldersError ==
    /\ pc = "loop" /\ index = N
    /\ UNCHANGED <<plan, source>>
    /\ vods_dir \cup segments_dir # {}
    /\ CanFail
    /\ faults' = faults + 1
    /\ TopLevelExcept
    /\ UNCHANGED <<world, run, locals, index, status, error, dl, prev_status, ledger0>>

\* The process has ended; the script is started again on the same listing.
NextRun ==
    /\ pc = "done"
    /\ run < MaxRuns
    /\ run' = run + 1
    /\ pc' = "idle"
    /\ skip_first_vod' = FALSE
    /\ processed_vods' = <<>>
    /\ index' = 0
    /\ game_name' = <<>>
    /\ last_part_number' = 0
    /\ segments' = <<>>
    /\ i' = 0
    /\ prev_status' = status
    /\ status' = AllOf("Pending")
    /\ error' = AllOf("")
    /\ dl' = AllOf("none")
    /\ ledger0' = ledger
    /\ top_error' = FALSE
    /\ total_duration' = 0
    /\ num_segments' = 0
    /\ segment_duration' = [num |-> 0, den |-> 1]
    /\ latest_vods' = <<>>
    /\ call' = "none"
    /\ responses' = <<>>
    /\ refreshes' = <<>>
    /\ UNCHANGED <<world, faults>>

Next ==
    \/ SourceGet
    \/ RefreshAccessToken
    \/ SourceRetry
    \/ MainStart
    \/ MainStartError
    \/ SkipFirstVod
    \/ SkipProcessed
    \/ DownloadVod
    \/ Classify
    \/ UploadWhole
    \/ SaveWhole
    \/ SplitVod
    \/ UploadSegment
    \/ SaveSegments
    \/ ClearFolders
    \/ ClearFoldersError
    \/ NextRun

Spec == Init /\ [][Next]_vars

\* --------------------------------------------------- the planner on its own
\* The state before the script is started, nothing listed.
Quiet ==
    /\ vods = <<>>
    /\ ledger = <<>>
    /\ vods_dir = {}
    /\ segments_dir = {}
    /\ uploads = <<>>
    /\ playlists = {}
    /\ playlist_items = {}
    /\ run = 1
    /\ pc = "idle"
    /\ skip_first_vod = FALSE
    /\ processed_vods = <<>>
    /\ index = 0
    /\ game_name = <<>>
    /\ last_part_number = 0
    /\ segments = <<>>
    /\ i = 0
    /\ status = <<>>
    /\ error = <<>>
    /\ dl = <<>>
    /\ prev_status = <<>>
    /\ ledger0 = <<>>
    /\ top_error = FALSE
    /\ faults = 0
    /\ total_duration = 0
    /\ num_segments = 0
    /\ segment_duration = [num |-> 0, den |-> 1]
    /\ latest_vods = <<>>
    /\ call = "none"
    /\ responses = <<>>
    /\ refreshes = <<>>

\* split_vod's plan (main.py:132-139) for any duration of 1..MaxDuration seconds
Plan ==
    /\ total_duration = 0
    /\ \E d \in 1..MaxDuration : PlanSegments(d)
    /\ UNCHANGED <<world, run, pc, locals, index, status, error, dl, hist, faults, source>>

PlanSpec == Quiet /\ [][Plan]_vars

\* ------------------------------------------------ the allocator on its own
\* Rows a ledger can hold: categories "G", "g", "H", part numbers 1, 2, 10.
LookupRows ==
    {Row(<<120>>, g, p, 0) : g \in {<<71>>, <<103>>, <<72>>}, p \in {1, 2, 10}}

\* Ledger snapshots of up to MaxRows rows, in any order.
LookupLedgers == UNION {[1..n -> LookupRows] : n \in 0..MaxRows}

\* main.py:330 for any category among "G", "g", "H", "x" and any snapshot
Lookup ==
    /\ game_name = <<>>
    /\ processed_vods' \in LookupLedgers
    /\ game_name' \in {<<71>>, <<103>>, <<72>>, <<120>>}
    /\ last_part_number' = get_last_part_number_for_game(game_name', processed_vods')
    /\ UNCHANGED <<world, run, pc, skip_first_vod, index, segments, i, status, error, dl,
                   hist, faults, plan, source>>

LookupSpec == Quiet /\ [][Lookup]_vars

\* ============================================================== properties
\* Helpers of the properties below.
IdInLedger(id, file) == \E k \in 1..Len(file) : file[k].vod_id = id
SameCategory(g, h) == Lower(g) = Lower(h)
\* Uploads issued in the current run for the k-th listed recording.
UploadsOf(k) ==
    {u \in 1..Len(uploads) : uploads[u].vod_id = vods[k].id /\ uploads[u].run = run}
\* Rows the current run has appended to the ledger so far.
RunRows == (Len(ledger0) + 1)..Len(ledger)
HasRunRow(k) == \E r \in RunRows : ledger[r].vod_id = vods[k].id
InBody == pc \in {"classify", "whole", "save_whole", "split", "segments"}

\* C1: across the runs over the same listing with the ledger kept, no upload
\* is issued for a recording whose id the ledger file holds; a recording
\* recorded in one run is therefore not uploaded again by a later one.
C1_NoUploadForLedgerId ==
    [][uploads' # uploads =>
          /\ Len(uploads') = Len(uploads) + 1
          /\ ~IdInLedger(uploads'[Len(uploads')].vod_id, ledger)]_vars

\* C1 witness: the second run skipped a recording that the first run uploaded
\* and recorded.
C1_Witness ==
    /\ run = 2
    /\ \E k \in 1..N :
        /\ status[k] = "Skipped"
        /\ IdInLedger(vods[k].id, ledger)
        /\ \E u \in 1..Len(uploads) : uploads[u].vod_id = vods[k].id /\ uploads[u].run = 1

\* C2 (as claimed): once a recording is classified, its last part number is
\* the part number of the row this run wrote last for its category, whenever
\* this run wrote one.
C2_ContinuesWithinRun ==
    InBody /\ pc # "classify" =>
        \A r \in RunRows :
            (/\ SameCategory(ledger[r].game_name, game_name)
             /\ \A q \in RunRows : q > r => ~SameCategory(ledger[q].game_name, game_name))
            => last_part_number = StrToInt(ledger[r].part_number)

\* C3 (as claimed): a row appended to the ledger has a part number greater
\* than that of every row already stored for the same category.
C3_RowAboveCategoryMax ==
    [][ledger' # ledger /\ Len(ledger') = Len(ledger) + 1 =>
          \A k \in 1..Len(ledger) :
              SameCategory(ledger[k].game_name, ledger'[Len(ledger')].game_name)
              => StrToInt(ledger'[Len(ledger')].part_number) > StrToInt(ledger[k].part_number)]_vars

\* C4 (as claimed): the piece uploaded from segment file number j of the
\* recording being processed carries part number last_part_number + j + 1.
C4_ChronologicalNumbers ==
    pc = "segments" =>
        \A u \in UploadsOf(index + 1) :
            uploads[u].part = last_part_number + uploads[u].file + 1

\* C5: an exception in one recording's processing marks that recording Failed
\* and hands control back to the loop at the next recording; it never reaches
\* the process boundary, the loop takes the recordings one by one in listing
\* order, and a run that ends normally has left no recording unconsidered.
C5_FailureIsolated ==
    [][/\ (\E k \in 1..N : status[k] # "Failed" /\ status'[k] = "Failed")
          => /\ pc' = "loop"
             /\ index' = index + 1
             /\ status'[index + 1] = "Failed"
             /\ top_error' = top_error
       /\ pc' = "loop" => \A k \in 1..N : (k <= index') <=> (status'[k] # "Pending")
       /\ (pc' = "done" /\ ~top_error') => \A k \in 1..N : status'[k] # "Pending"]_vars

\* C5 witness: a run ended normally in which a recording failed and a later
\* one was processed to the end.
C5_Witness ==
    /\ pc = "done" /\ ~top_error
    /\ \E k, m \in 1..N : k < m /\ status[k] = "Failed" /\ status[m] = "Done"

\* Lexicographic order of strings by character code (Python's str order).
RECURSIVE StrLess(_, _)
StrLess(a, b) ==
    IF b = <<>> THEN FALSE
    ELSE IF a = <<>> THEN TRUE
    ELSE IF a[1] # b[1] THEN a[1] < b[1]
    ELSE StrLess(Tail(a), Tail(b))

SortedByCategoryDescending(file) ==
    \A k \in 1..(Len(file) - 1) : ~StrLess(file[k].game_name, file[k + 1].game_name)

\* The step handles the recording at position index of the listing.
LoopStep == pc = "loop" /\ index < N
\* The step is one in which the recording at position index fails.
FailStep == \E k \in 1..N : status[k] # "Failed" /\ status'[k] = "Failed"
\* Within a run a recording is downloaded at most once.
OneAttempt == \A k \in 1..N : (dl[k] # "none" /\ run' = run) => dl'[k] = dl[k]

\* C6 (as claimed): a failing recording gets no ledger row in its run, is
\* downloaded at most once in the run, and when the next run's loop comes to a
\* recording that failed in the run before, it downloads it.
C6_RetriedNextRun ==
    [][/\ FailStep => ledger' = ledger
       /\ \A k \in 1..N : status'[k] = "Failed" => ~\E r \in (Len(ledger0') + 1)..Len(ledger') :
                                                        ledger'[r].vod_id = vods[k].id
       /\ OneAttempt
       /\ (LoopStep /\ prev_status[index + 1] = "Failed") => dl'[index + 1] # "none"]_vars

\* C6 (amended): the same, the download in the next run being made unless the
\* recording is the first of the listing and the source is live in that run,
\* in which case it is skipped.
C6_RetriedNextRunUnlessLive ==
    [][/\ FailStep => ledger' = ledger
       /\ \A k \in 1..N : status'[k] = "Failed" => ~\E r \in (Len(ledger0') + 1)..Len(ledger') :
                                                        ledger'[r].vod_id = vods[k].id
       /\ OneAttempt
       /\ (LoopStep /\ prev_status[index + 1] = "Failed") =>
             IF skip_first_vod /\ index = 0
             THEN status'[index + 1] = "Skipped" /\ dl'[index + 1] = "none"
             ELSE dl'[index + 1] # "none"]_vars

\* C6 witness: the second run has downloaded again a recording that failed in
\* the first run and that the first run left without a ledger row.
C6_Witness ==
    /\ run = 2
    /\ \E k \in 1..N : prev_status[k] = "Failed" /\ dl[k] # "none"
                       /\ ~IdInLedger(vods[k].id, ledger0)

\* C7 (as claimed): a recording whose download failed (non-zero exit, with or
\* without an output file) is Failed in this run: nothing is uploaded for it
\* and no ledger row is written for it.
C7_DownloadFailureFails ==
    \A k \in 1..N :
        dl[k] \in {"partial", "missing"} =>
            /\ UploadsOf(k) = {}
            /\ ~HasRunRow(k)
            /\ status[k] # "Done"

\* C8: the loop skips the recording it has come to exactly when the ledger
\* holds a row with exactly its id, or it is the first of the listing and the
\* source is live; a skip issues no download, split, upload, grouping or ledger
\* write, and every other recording is handed to download_vod.
C8_SkipExactly ==
    [][LoopStep =>
          IF IdInLedger(cur.id, ledger) \/ (skip_first_vod /\ index = 0)
          THEN /\ status'[index + 1] = "Skipped"
               /\ index' = index + 1
               /\ UNCHANGED <<ledger, vods_dir, segments_dir, uploads, playlists,
                              playlist_items, dl>>
          ELSE /\ status'[index + 1] # "Skipped"
               /\ dl'[index + 1] # "none"]_vars

\* C8 witness: a recording was skipped for its ledger row while another one,
\* whose id differs from it only by letter case, was downloaded.
C8_Witness ==
    \E k, m \in 1..N :
        /\ status[k] = "Skipped" /\ IdInLedger(vods[k].id, ledger0)
        /\ k # m /\ Lower(vods[m].id) = Lower(vods[k].id)
        /\ dl[m] # "none"

\* C9 (as claimed): for a title without " |" the category is the whole title
\* and building the output title raises nothing.
C9_NoDelimiterFormats ==
    \A k \in 1..N :
        FirstDelim(vods[k].title) = 0 =>
            /\ SplitHead(vods[k].title) = vods[k].title
            /\ error[k] # "format"

C11_PlannerCount ==
    total_duration > 0 =>
        /\ segment_duration.den >= 1
        /\ segment_duration.num = total_duration
        /\ \E r \in 0..(total_duration \div 1800 + 1) :
            /\ 2 * total_duration - 3600 * r \in (-1800)..1800
            /\ (2 * total_duration - 3600 * r \in {-1800, 1800}) => r % 2 = 0
            /\ segment_duration.den = IF r >= 1 THEN r ELSE 1
        /\ total_duration = 5400 =>
              segment_duration.den = 3 /\ segment_duration.num = 1800 * segment_duration.den
        /\ total_duration = 1000 =>
              segment_duration.den = 1 /\ segment_duration.num = 1000

\* C11 witness: a duration under 900 s was planned, rounding to 0 segments, and
\* the count used is 1.
C11_Witness ==
    total_duration = 600 /\ num_segments = 0 /\ segment_duration = [num |-> 600, den |-> 1]

\* Rows of the snapshot whose category is the looked-up one, ignoring case.
Matching == {k \in 1..Len(processed_vods) :
                Lower(processed_vods[k].game_name) = Lower(game_name)}

\* C12: the last part number of a category over a ledger snapshot is at least
\* 0; it is 0 when no row has the category (ignoring case) and otherwise the
\* greatest part number among the rows that have it, whatever the other rows
\* and the order of the rows.
C12_LastPartIsMax ==
    /\ last_part_number >= 0
    /\ IF Matching = {}
       THEN last_part_number = 0
       ELSE /\ \E k \in Matching : StrToInt(processed_vods[k].part_number) = last_part_number
            /\ \A k \in Matching : StrToInt(processed_vods[k].part_number) <= last_part_number

\* C12 witness: the category's greatest part number stands in a row written
\* with another letter case and followed by a matching row with a smaller one
\* and by a row of another category.
C12_Witness ==
    /\ last_part_number = 10
    /\ \E k, m, q \in 1..Len(processed_vods) :
        /\ k < m /\ m < q
        /\ k \in Matching /\ processed_vods[k].game_name # game_name
        /\ StrToInt(processed_vods[k].part_number) = 10
        /\ m \in Matching /\ StrToInt(processed_vods[m].part_number) = 2
        /\ q \notin Matching

\* Rows the current run has appended for the k-th listed recording.
RunRowsOf(k) == {r \in RunRows : ledger[r].vod_id = vods[k].id}

\* C13 (as claimed): a recording processed to the end has as many ledger rows
\* as units uploaded for it (the whole recording, or each of its segments).
C13_RowPerUploadedUnit ==
    \A k \in 1..N :
        status[k] = "Done" => Cardinality(RunRowsOf(k)) = Cardinality(UploadsOf(k))

\* C13 (amended): a row is appended exactly in the step that completes the
\* processing of a recording, one row for the recording whatever the number of
\* units uploaded for it; no id has two rows; every step, across the runs,
\* leaves the rows already in the file in place with all their fields.
C13_RowPerRecording ==
    [][/\ \/ ledger' = ledger
          \/ /\ Len(ledger') = Len(ledger) + 1
             /\ \A r \in 1..Len(ledger) : ledger'[r] = ledger[r]
       /\ (ledger' # ledger) <=> (\E k \in 1..N : status[k] # "Done" /\ status'[k] = "Done")
       /\ ledger' # ledger =>
             /\ status'[index + 1] = "Done"
             /\ ledger'[Len(ledger')].vod_id = cur.id
       /\ \A r, q \in 1..Len(ledger') : r # q => ledger'[r].vod_id # ledger'[q].vod_id]_vars

\* C13 witness: the second run has appended a row behind the single row the
\* first run wrote for a recording uploaded in two segments.
C13_Witness ==
    /\ run = 2
    /\ Len(ledger) > Len(ledger0)
    /\ \E r \in 1..Len(ledger0) :
        /\ ledger[r].timestamp = 1
        /\ Cardinality({u \in 1..Len(uploads) : /\ uploads[u].vod_id = ledger[r].vod_id
                                                /\ uploads[u].run = 1}) = 2
        /\ \A q \in 1..Len(ledger) : ledger[q].vod_id = ledger[r].vod_id => q = r

\* Uploads of earlier runs for the recording the loop has come to.
EarlierUploads == {u \in 1..Len(uploads) : uploads[u].vod_id = cur.id /\ uploads[u].run < run}

\* C14: an upload is not undone by a later failure of the same recording. A
\* step that fails in the playlist lookup or in the playlist insertion has
\* inserted its video; a failing step leaves the uploads of the recording on
\* the platform and writes no row, so the recording's id stays out of the
\* ledger; and the next run, coming to a recording that failed and has uploads
\* from before, downloads it again unless it is skipped as live. Hence the
\* execution of the witness: the same file of a recording uploaded twice.
C14_UploadSurvivesFailure ==
    [][/\ Len(uploads') >= Len(uploads)
       /\ \A u \in 1..Len(uploads) : uploads'[u] = uploads[u]
       /\ (FailStep /\ error'[index + 1] \in {"playlist", "add"}) =>
             /\ Len(uploads') = Len(uploads) + 1
             /\ uploads'[Len(uploads')].vod_id = cur.id
       /\ FailStep => /\ ledger' = ledger
                      /\ ~IdInLedger(cur.id, ledger')
       /\ (LoopStep /\ ~LiveSkip /\ prev_status[index + 1] = "Failed" /\ EarlierUploads # {})
             => /\ status'[index + 1] # "Skipped"
                /\ dl'[index + 1] # "none"]_vars

\* C14 witness: the first run uploaded a file of a recording and then failed on
\* it without a ledger row; the second run downloaded the recording and
\* uploaded the same file again.
C14_Witness ==
    /\ run = 2
    /\ \E k \in 1..N :
        /\ prev_status[k] = "Failed"
        /\ ~IdInLedger(vods[k].id, ledger0)
        /\ dl[k] # "none"
        /\ \E u, w \in 1..Len(uploads) :
            /\ uploads[u].vod_id = vods[k].id /\ uploads[u].run = 1
            /\ uploads[w].vod_id = vods[k].id /\ uploads[w].run = 2
            /\ uploads[u].file = uploads[w].file

Final == {"Skipped", "Done", "Failed"}
StartUp == {"idle", "refresh", "retry", "fetch", "load"}

\* How far main() is from its end at position p (in call c), the position in
\* the listing apart.
Stage(p, c) ==
    CASE p = "idle" -> 12
      [] p = "refresh" -> IF c = "is_user_live" THEN 11 ELSE 8
      [] p = "retry" -> IF c = "is_user_live" THEN 10 ELSE 7
      [] p = "fetch" -> 9
      [] p = "load" -> 6
      [] p = "loop" -> 5
      [] p = "classify" -> 4
      [] p \in {"whole", "split"} -> 3
      [] p \in {"save_whole", "segments"} -> 2
      [] OTHER -> 0

\* The step brings main() nearer to its end: a later recording, or the same
\* one at a later stage, or a later segment of the same list.
Advances ==
    /\ index' <= N
    /\ \/ index' > index
       \/ /\ index' = index
          /\ Stage(pc', call') < Stage(pc, call)
       \/ /\ index' = index
          /\ pc = "segments" /\ pc' = "segments"
          /\ segments' = segments
          /\ i < i' /\ i' <= Len(segments)

\* C15 (as claimed): when a run has ended, each recording it listed is Skipped,
\* Done or Failed.
C15_AllListedFinal ==
    pc = "done" => \A k \in 1..Len(latest_vods) : status[k] \in Final

\* C15 (amended): every run ends normally. A run that has not ended can take a
\* step and each step brings it nearer to its end; an exception outside the
\* per-recording handler ends the run at the process boundary, where it is
\* caught; and when a run has ended each listed recording is Skipped, Done or
\* Failed unless the run was stopped during start-up, in which case none was
\* considered.
C15_RunEnds ==
    /\ [](pc = "done" \/ ENABLED Next)
    /\ [][/\ run' = run => Advances
          /\ (run' = run /\ top_error' # top_error) =>
                /\ top_error' /\ pc' = "done"
                /\ pc \in StartUp \/ (pc = "loop" /\ index = N)
                /\ status' = status /\ error' = error
          /\ pc' = "done" =>
                \/ \A k \in 1..N : status'[k] \in Final
                \/ /\ top_error' /\ pc \in StartUp
                   /\ \A k \in 1..N : status'[k] = "Pending"]_vars

\* C15 witness: a run that listed recordings was stopped by an exception
\* before the loop and ended at the process boundary, no recording considered.
C15_Witness ==
    /\ pc = "done" /\ top_error
    /\ latest_vods # <<>>
    /\ \A k \in 1..N : status[k] = "Pending"

\* The j-th listed piece of the recording being processed is on the platform
\* with its number and in a playlist.
PieceUp(j) ==
    \E u \in UploadsOf(index + 1) :
        /\ uploads[u].file = segments[j].name
        /\ uploads[u].from = segments[j].from
        /\ uploads[u].part = last_part_number + j
        /\ \E p \in playlists : <<u, p>> \in playlist_items

\* C16: for a segmented recording the ledger is written only when every listed
\* piece has been uploaded and put in a playlist, by one row whose part number
\* is the last part number plus the number of pieces; a step in which a piece
\* fails writes no row, leaves the recording's id out of the ledger and leaves
\* the pieces uploaded so far on the platform.
C16_RowAfterAllPieces ==
    [][/\ (pc = "segments" /\ ledger' # ledger) =>
             /\ i = Len(segments)
             /\ \A j \in 1..Len(segments) : PieceUp(j)
             /\ Cardinality(UploadsOf(index + 1)) = Len(segments)
             /\ ledger' = Append(ledger, Row(cur.id, game_name,
                                             last_part_number + Len(segments), run))
             /\ uploads' = uploads /\ playlist_items' = playlist_items
       /\ (pc = "segments" /\ FailStep) =>
             /\ ledger' = ledger
             /\ ~IdInLedger(cur.id, ledger')
             /\ \A u \in 1..Len(uploads) : uploads'[u] = uploads[u]
             /\ \A j \in 1..i : PieceUp(j)
             /\ Cardinality(UploadsOf(index + 1)) = i]_vars

\* C16 witness: in one run a recording was uploaded in two pieces and recorded
\* by one row carrying the number of its last piece, and another recording
\* failed after its first piece, which is still uploaded, and has no row.
C16_Witness ==
    \E k, m \in 1..N :
        /\ status[k] = "Done" /\ Cardinality(UploadsOf(k)) = 2
        /\ \E r \in RunRows :
            /\ ledger[r].vod_id = vods[k].id
            /\ \A q \in RunRows : ledger[q].vod_id = vods[k].id => q = r
            /\ \E u \in UploadsOf(k) : uploads[u].part = StrToInt(ledger[r].part_number)
            /\ \A u \in UploadsOf(k) : uploads[u].part <= StrToInt(ledger[r].part_number)
        /\ status[m] = "Failed" /\ error[m] \in {"upload", "playlist", "add"}
        /\ Cardinality(UploadsOf(m)) = 1
        /\ ~HasRunRow(m)

\* h is the text of t before its first " |" (all of t when it has none).
IsTextBeforeBar(h, t) ==
    LET n == Len(h)
        DelimAt(q) == q + 1 <= Len(t) /\ t[q] = SP /\ t[q + 1] = BAR
    IN /\ n <= Len(t) /\ h = SubSeq(t, 1, n)
       /\ \A q \in 1..n : ~DelimAt(q)
       /\ n = Len(t) \/ DelimAt(n + 1)

\* C17: classification sends a recording to the whole-file branch exactly when
\* the text before the first " |" of its title is "just chatting" or "cooking"
\* ignoring case, and to splitting otherwise; the whole-file branch touches
\* neither the planner nor the segment directory, and a recording it completes
\* has exactly one upload, of the whole download with part number
\* last_part_number + 1, and gets exactly one row with that number.
C17_ContinuousWhole ==
    [][/\ pc = "classify" =>
             /\ IsTextBeforeBar(game_name', cur.title)
             /\ pc' = "whole" <=> Lower(game_name') \in {JustChatting, Cooking}
             /\ pc' = "split" <=> Lower(game_name') \notin {JustChatting, Cooking}
       /\ pc \in {"whole", "save_whole"} =>
             /\ Lower(game_name) \in {JustChatting, Cooking}
             /\ pc' \in {"whole", "save_whole", "loop"}
             /\ UNCHANGED <<segments_dir, segments, plan>>
       /\ pc \in {"split", "segments"} => Lower(game_name) \notin {JustChatting, Cooking}
       /\ (pc \in {"whole", "save_whole"} /\ status'[index + 1] = "Done") =>
             /\ \E u \in 1..Len(uploads) :
                   /\ UploadsOf(index + 1) = {u}
                   /\ uploads[u].file = -1
                   /\ uploads[u].part = last_part_number + 1
             /\ uploads' = uploads
             /\ ledger' = Append(ledger, Row(cur.id, game_name, last_part_number + 1, run))]_vars

\* C17 witness: a recording titled "Just Chatting | b" was processed whole, one
\* upload and one row, and a recording of another category was uploaded in
\* pieces in the same run.
C17_Witness ==
    \E k, m \in 1..N :
        /\ status[k] = "Done"
        /\ SplitHead(vods[k].title) # JustChatting
        /\ Lower(SplitHead(vods[k].title)) = JustChatting
        /\ Cardinality(UploadsOf(k)) = 1 /\ Cardinality(RunRowsOf(k)) = 1
        /\ \A u \in UploadsOf(k) : uploads[u].file = -1
        /\ status[m] = "Done"
        /\ Cardinality(UploadsOf(m)) = 2
        /\ \A u \in UploadsOf(m) : uploads[u].file >= 0

\* C18 (as claimed): every piece uploaded for a recording is a segment file
\* made from that recording, and the row of a segmented recording counts only
\* such pieces.
C18_OwnPiecesOnly ==
    /\ \A u \in 1..Len(uploads) :
          uploads[u].file >= 0 => uploads[u].from = uploads[u].vod_id
    /\ pc = "segments" => \A j \in 1..Len(segments) : segments[j].from = cur.id

\* The step ends the source call in progress by its return into main().
Returned ==
    /\ top_error' = top_error
    /\ IF call' = "is_user_live"
       THEN pc' = "fetch"
       ELSE pc' = "load" /\ latest_vods' = vods
\* The step ends the source call in progress by an exception, which ends the run.
Surfaced == top_error' /\ pc' = "done"

\* C19: in is_user_live and in fetch_vod_details alike, the first request is
\* followed by a token refresh exactly when its answer is 401; that refresh is
\* the only one of the call and, whether or not it obtained a token, is followed
\* by one retry of the request (a refresh that itself raises ends the call with
\* that error); the call returns when the answer that counts is 200 and raises
\* otherwise, a failed retry being followed by no refresh and no request: a
\* call makes at most one refresh and at most two requests.
C19_OneRefreshOneRetry ==
    [][/\ Len(responses') <= 2 /\ Len(refreshes') <= 1
       /\ pc \in {"idle", "fetch"} =>
             /\ call' = IF pc = "idle" THEN "is_user_live" ELSE "fetch_vod_details"
             /\ Len(responses') = 1 /\ refreshes' = <<>>
             /\ responses'[1] = 401 <=> pc' = "refresh"
             /\ responses'[1] = 200 => Returned
             /\ responses'[1] \notin {200, 401} => Surfaced
       /\ pc = "refresh" =>
             /\ responses = <<401>> /\ responses' = responses /\ call' = call
             /\ refreshes = <<>> /\ Len(refreshes') = 1
             /\ IF refreshes'[1] = "raised" THEN Surfaced ELSE pc' = "retry"
       /\ pc = "retry" =>
             /\ Len(refreshes) = 1 /\ refreshes' = refreshes /\ call' = call
             /\ Len(responses') = 2 /\ responses'[1] = 401
             /\ IF responses'[2] = 200 THEN Returned ELSE Surfaced
       /\ pc \notin {"idle", "fetch", "refresh", "retry"} =>
             /\ pc' \notin {"refresh", "retry"}
             /\ responses' \in {responses, <<>>}
             /\ refreshes' \in {refreshes, <<>>}]_vars

\* C19 witness: fetch_vod_details got 401, refreshed the token once, got 401
\* again on its one retry and raised; the run ended with nothing listed.
C19_Witness ==
    /\ pc = "done" /\ top_error
    /\ call = "fetch_vod_details"
    /\ responses = <<401, 401>>
    /\ refreshes = <<"ok">>
    /\ latest_vods = <<>>

====
